---- MODULE Spec2Model ----
(***************************************************************************)
(* A model of crawler_to_md.py: the file name sanitizer, the image policy  *)
(* filter, the image localizer (download_image) with its on-disk cache,    *)
(* the two image rewriters and the page pipeline                           *)
(* (fetch_and_convert_to_markdown) with its caller (__main__).             *)
(*                                                                         *)
(* Text is modelled as a sequence of one-character strings, a path as a    *)
(* sequence of components, and the md5 of a URL by the URL itself (an      *)
(* injective name).                                                        *)
(***************************************************************************)
EXTENDS Naturals, Sequences, FiniteSets

VARIABLES
    sanIn,      \* sanitizer harness: the text handed to sanitize_filename
    sanOut,     \* sanitizer harness: its result, or Pending before the call
    imgFiles,   \* the files on disk under the image folders: path -> content
    dlSrc,      \* localizer harness: the img_url of the calls
    dlFolder,   \* localizer harness: the img_folder of the calls
    dlCalls,    \* localizer harness: the calls made so far, each with its outcome
    site,       \* the page the URL serves: [title, nodes]
    args,       \* the arguments of the run: [save_dir, img_folder]
    now,        \* the clock, in seconds, as last read
    run,        \* the number of the current run of the program
    pc,         \* the position of the current run
    steps,      \* the pipeline steps the current run has completed, in order
    pageStatus, \* response.status_code of the page fetch, 0 before it
    soup,       \* the parsed tree: its image references, in document order
    main,       \* main_content: the references of the selected subtree
    md,         \* markdown_content: the references of the serialized text
    cursor,     \* the next reference of the running rewriter's loop
    title,      \* the local title
    mdPath,     \* the local md_file_path
    result,     \* what fetch_and_convert_to_markdown returned, Pending before
    dirs,       \* the directories that exist
    docFiles,   \* the documents on disk: path -> [run, doc]
    fetches,    \* the image fetches the current run issued
    raisedAt,   \* the position at which the current run raised, "" if it did not
    filesAtStart, \* imgFiles when the current run started
    docWrites,  \* the paths of the documents the current run wrote
    downloaded, \* the URLs earlier runs fetched completely
    outPaths    \* the md_file_path each run computed, in run order

sanVars == <<sanIn, sanOut>>
dlVars == <<dlSrc, dlFolder, dlCalls>>
runVars == <<site, args, now, run, pc, steps, pageStatus, soup, main, md, cursor,
             title, mdPath, result, dirs, docFiles, fetches, raisedAt,
             filesAtStart, docWrites, downloaded, outPaths>>
vars == <<sanVars, imgFiles, dlVars, runVars>>

\* Python's None where a text or a path is expected (no text has a component
\* of more than one character, no path a component of this name)
NULL == <<"None">>
Pending == <<"pending">>
\* Python's None where a path or a document is expected
None == [none |-> TRUE]
\* fetch_and_convert_to_markdown has not returned
NoResult == [pending |-> TRUE]

(***************************************************************************)
(* Bounds of the model.                                                    *)
(***************************************************************************)
MaxBody == 102    \* longest run of one character in a sanitizer input
MaxPad == 2       \* longest run of whitespace before / after that run
MaxCalls == 3     \* consecutive calls of download_image in the localizer harness
MaxNodes == 2     \* image references of a page
MaxRuns == 2      \* runs of the program, one after the other
MaxClock == 1     \* seconds the clock may advance over the runs

(***************************************************************************)
(* sanitize_filename                                                       *)
(***************************************************************************)
MaxFilenameLen == 100
TruncateKeep == 97

Untitled == <<"u", "n", "t", "i", "t", "l", "e", "d">>
Ellipsis == <<".", ".", ".">>

\* what the regular expression class \s and str.strip() treat as whitespace
Whitespace == {" ", "\t", "\n", "\r", "\f"}

\* the characters of the class [\\/*?:"<>|]
InvalidChars == {"\\", "/", "*", "?", ":", "\"", "<", ">", "|"}

\* filename.replace('\n', ' ').replace('\r', ' ').replace('\t', ' ')
ReplaceNewlines(s) ==
    [i \in 1..Len(s) |-> IF s[i] \in {"\n", "\r", "\t"} THEN " " ELSE s[i]]

\* re.sub(invalid_chars, '_', filename)
ReplaceInvalid(s) ==
    [i \in 1..Len(s) |-> IF s[i] \in InvalidChars THEN "_" ELSE s[i]]

\* re.sub(r'\s+', ' ', sanitized): every maximal run of whitespace becomes one space
RECURSIVE CollapseWhitespace(_)
CollapseWhitespace(s) ==
    IF s = <<>> THEN <<>>
    ELSE IF Head(s) \in Whitespace
         THEN IF Len(s) > 1 /\ s[2] \in Whitespace
              THEN CollapseWhitespace(Tail(s))
              ELSE <<" ">> \o CollapseWhitespace(Tail(s))
         ELSE <<Head(s)>> \o CollapseWhitespace(Tail(s))

\* if len(sanitized) > 100: sanitized = sanitized[:97] + '...'
Truncate_MutTooLong(s) ==
    IF Len(s) > MaxFilenameLen THEN SubSeq(s, 1, MaxFilenameLen) \o Ellipsis ELSE s

Truncate(s) ==
    IF Len(s) > MaxFilenameLen THEN SubSeq(s, 1, TruncateKeep) \o Ellipsis ELSE s

RECURSIVE LStrip(_)
LStrip(s) ==
    IF s # <<>> /\ Head(s) \in Whitespace THEN LStrip(Tail(s)) ELSE s

RECURSIVE RStrip(_)
RStrip(s) ==
    IF s # <<>> /\ s[Len(s)] \in Whitespace
    THEN RStrip(SubSeq(s, 1, Len(s) - 1))
    ELSE s

\* str.strip()
Strip(s) == RStrip(LStrip(s))

sanitize_filename(filename) ==
    IF filename = NULL THEN Untitled
    ELSE LET replaced == ReplaceNewlines(filename)
             valid == ReplaceInvalid(replaced)
             collapsed == CollapseWhitespace(valid)
             limited == Truncate(collapsed)
             stripped == Strip(limited)
         IN IF stripped = <<>> THEN Untitled ELSE stripped

\* the variables of the other harnesses, at rest
DlIdle ==
    /\ dlSrc = None
    /\ dlFolder = None
    /\ dlCalls = <<>>

RunIdle ==
    /\ site = None
    /\ args = None
    /\ now = 0
    /\ run = 0
    /\ pc = "Off"
    /\ steps = <<>>
    /\ pageStatus = 0
    /\ soup = <<>>
    /\ main = <<>>
    /\ md = <<>>
    /\ cursor = 0
    /\ title = NULL
    /\ mdPath = None
    /\ result = NoResult
    /\ dirs = {}
    /\ docFiles = <<>>
    /\ fetches = {}
    /\ raisedAt = ""
    /\ filesAtStart = <<>>
    /\ docWrites = {}
    /\ downloaded = {}
    /\ outPaths = <<>>

(***************************************************************************)
(* The sanitizer harness: one call of sanitize_filename on a text drawn    *)
(* from a bounded family: a run of one character, with whitespace before   *)
(* and after it.                                                           *)
(***************************************************************************)
Rep(c, n) == [i \in 1..n |-> c]

SanChars == {"a", "/", " ", "\t", ".", "|"}
SanPads == {" ", "\n"}

SanInputs ==
    {NULL} \cup
    { Rep(p, lead) \o Rep(c, n) \o Rep(p, trail) :
        <<p, c, lead, n, trail>> \in
            SanPads \X SanChars \X (0..MaxPad) \X (0..MaxBody) \X (0..MaxPad) }

SanInit ==
    /\ sanIn \in SanInputs
    /\ sanOut = Pending
    /\ imgFiles = <<>>
    /\ DlIdle
    /\ RunIdle

Sanitize ==
    /\ sanOut = Pending
    /\ sanOut' = sanitize_filename(sanIn)
    /\ UNCHANGED <<sanIn, imgFiles, dlVars, runVars>>

SanNext == Sanitize

SanSpec == SanInit /\ [][SanNext]_vars

(***************************************************************************)
(* URLs.  An image source is [form, path]: written in full                 *)
(* ("https://ex.com" + path, form "abs"), as a rooted relative reference   *)
(* (path alone, form "rel") or as a data URI (form "data").  Every URL of  *)
(* the model is on the host of the page.                                   *)
(***************************************************************************)
Src(form, path) == [form |-> form, path |-> path]

PngPath == <<"/", "a", ".", "p", "n", "g">>
GifPath == <<"/", "b", ".", "G", "I", "F">>
BarePath == <<"/", "c">>
LongExtPath == <<"/", "d", ".", "j", "p", "e", "g", "2">>
\* what follows "data:" in a data URI ("image/png;base64,...")
DataPath == <<"i", "m", "a", "g", "e", "/", "p", "n", "g", ";", "b", "a", "s", "e", "6", "4", ",">>

PageUrl == [form |-> "abs", path |-> <<"/", "p", "a", "g", "e">>]

\* img_url.startswith(('http://', 'https://'))
StartsWithHttp(u) == u.form = "abs"

\* urljoin(base_url, img_url): a rooted path replaces the path of the base; a
\* reference with a scheme of its own (data:) is returned as it is
urljoin(base, u) ==
    IF u.form = "rel" THEN [form |-> "abs", path |-> u.path] ELSE u

UpperCase == <<"F", "G", "I", "N", "P">>
LowerCase == <<"f", "g", "i", "n", "p">>

\* str.lower(), on the letters the model's URLs hold
Lower(s) ==
    [i \in 1..Len(s) |->
        IF \E k \in 1..Len(UpperCase) : UpperCase[k] = s[i]
        THEN LowerCase[CHOOSE k \in 1..Len(UpperCase) : UpperCase[k] = s[i]]
        ELSE s[i]]

\* str.endswith
EndsWith(s, suffix) ==
    /\ Len(suffix) <= Len(s)
    /\ SubSeq(s, Len(s) - Len(suffix) + 1, Len(s)) = suffix

IGNORED_EXTENSIONS ==
    << <<".", "i", "c", "o">>, <<".", "w", "e", "b", "p">>, <<".", "s", "v", "g">>,
       <<".", "g", "i", "f">>, <<".", "b", "m", "p">>, <<".", "t", "i", "f", "f">> >>

\* urllib.parse.urlparse(img_url).path
UrlPath(u) == u.path

should_download_image(img_url) ==
    LET path == Lower(UrlPath(img_url))
    IN ~ \E k \in 1..Len(IGNORED_EXTENSIONS) : EndsWith(path, IGNORED_EXTENSIONS[k])

\* the largest index of c in s, 0 when s does not hold it
LastIndex(s, c) ==
    IF \E i \in 1..Len(s) : s[i] = c
    THEN CHOOSE i \in 1..Len(s) : s[i] = c /\ \A j \in (i + 1)..Len(s) : s[j] # c
    ELSE 0

\* os.path.splitext(p)[1]: from the last dot of the last component, unless that
\* component only starts with dots before it
SplitExt(p) ==
    LET sep == LastIndex(p, "/")
        dot == LastIndex(p, ".")
    IN IF dot > sep /\ \E i \in (sep + 1)..(dot - 1) : p[i] # "."
       THEN SubSeq(p, dot, Len(p))
       ELSE <<>>

MaxExtensionLen == 5
DefaultExtension == <<".", "j", "p", "g">>

\* lines 86-88: the extension of the cache file
CacheExtension(url) ==
    LET extension == SplitExt(UrlPath(url))
    IN IF extension = <<>> \/ Len(extension) > MaxExtensionLen
       THEN DefaultExtension
       ELSE extension

\* f"{img_hash}{extension}": the md5 of the URL is modelled by the URL
ImgFilename(url) == [hash |-> url, ext |-> CacheExtension(url)]

\* os.path.join(dir, name)
PathJoin(dir, name) == [dir |-> dir, name |-> name]

\* os.path.exists
Exists(files, path) == path \in DOMAIN files

\* open(path, 'wb') and the writes that follow: the file holds `content`
WriteFile(files, path, content) ==
    [p \in DOMAIN files \cup {path} |-> IF p = path THEN content ELSE files[p]]

(***************************************************************************)
(* download_image.  What the network answers is the parameter `outcome`:   *)
(*   "ok"           status 200 and the whole body arrives                  *)
(*   "status"       a status other than 200                                *)
(*   "error_before" requests.get raises (connection error, timeout)        *)
(*   "error_mid"    status 200, then iter_content raises after open()      *)
(*   "interrupt"    status 200, then KeyboardInterrupt during the write,   *)
(*                  which `except Exception` does not catch                *)
(* The result holds the returned path (None for Python's None), the files  *)
(* after the call, whether a network fetch was issued, and whether the     *)
(* interrupt left the function.                                            *)
(***************************************************************************)
\* lines 99-107: requests.get and what follows it
FetchOutcomes == {"ok", "status", "error_before", "error_mid"}

DlResult(ret, files, fetched, interrupted) ==
    [ret |-> ret, files |-> files, fetched |-> fetched, interrupted |-> interrupted]

FetchImage(url, img_path, files, outcome) ==
    CASE outcome = "ok" ->
           DlResult(img_path,
                    WriteFile(files, img_path, [url |-> url, complete |-> TRUE]),
                    TRUE, FALSE)
      [] outcome = "status" -> DlResult(None, files, TRUE, FALSE)
      [] outcome = "error_before" -> DlResult(None, files, TRUE, FALSE)
      [] outcome = "error_mid" ->
           DlResult(None,
                    WriteFile(files, img_path, [url |-> url, complete |-> FALSE]),
                    TRUE, FALSE)
      [] outcome = "interrupt" ->
           DlResult(None,
                    WriteFile(files, img_path, [url |-> url, complete |-> FALSE]),
                    TRUE, TRUE)

download_image_MutNoCache(img_url, base_url, img_folder, files, outcome) ==
    LET url == IF StartsWithHttp(img_url) THEN img_url ELSE urljoin(base_url, img_url)
        img_path == PathJoin(img_folder, ImgFilename(url))
    IN IF ~ should_download_image(url) \/ url.form = "data"
       THEN DlResult(None, files, FALSE, FALSE)
       ELSE FetchImage(url, img_path, files, outcome)

download_image(img_url, base_url, img_folder, files, outcome) ==
    LET url == IF StartsWithHttp(img_url) THEN img_url ELSE urljoin(base_url, img_url)
        img_path == PathJoin(img_folder, ImgFilename(url))
    IN IF ~ should_download_image(url)
       THEN DlResult(None, files, FALSE, FALSE)
       ELSE IF Exists(files, img_path)
       THEN DlResult(img_path, files, FALSE, FALSE)
       ELSE IF url.form = "data"
       THEN \* requests.get raises InvalidSchema before it connects
            DlResult(None, files, FALSE, FALSE)
       ELSE FetchImage(url, img_path, files, outcome)

(***************************************************************************)
(* Directories: [abs, parts].  A relative one is relative to Cwd.          *)
(***************************************************************************)
Dir(abs, parts) == [abs |-> abs, parts |-> parts]
Cwd == <<"home", "user">>
OutDir == Dir(FALSE, <<"out">>)
OutImages == Dir(FALSE, <<"out", "images">>)
VarImages == Dir(TRUE, <<"var", "img">>)

(***************************************************************************)
(* The localizer harness: up to MaxCalls consecutive calls of              *)
(* download_image with one img_url and one img_folder.                     *)
(***************************************************************************)
DlSources ==
    { Src(f, p) : <<f, p>> \in {"abs", "rel"} \X {PngPath, GifPath, BarePath, LongExtPath} }
    \cup {Src("data", DataPath)}

DlInit ==
    /\ sanIn = NULL
    /\ sanOut = Pending
    /\ RunIdle
    /\ imgFiles = <<>>
    /\ dlSrc \in DlSources
    /\ dlFolder \in {OutImages, VarImages}
    /\ dlCalls = <<>>

DlCall ==
    /\ Len(dlCalls) < MaxCalls
    /\ \E outcome \in FetchOutcomes :
         LET r == download_image(dlSrc, PageUrl, dlFolder, imgFiles, outcome)
         IN /\ r.fetched \/ outcome = "ok"
            /\ dlCalls' = Append(dlCalls,
                   [ret |-> r.ret, fetched |-> r.fetched,
                    outcome |-> IF r.fetched THEN outcome ELSE "none"])
            /\ imgFiles' = r.files
    /\ UNCHANGED <<sanVars, dlSrc, dlFolder, runVars>>

DlNext == DlCall

DlSpec == DlInit /\ [][DlNext]_vars

(***************************************************************************)
(* Paths of files: [dir, name].                                            *)
(***************************************************************************)
\* os.path.abspath of a directory
AbsParts(d) == IF d.abs THEN d.parts ELSE Cwd \o d.parts

\* len(os.path.commonprefix([a, b])) on lists of components
RECURSIVE CommonLen(_, _)
CommonLen(a, b) ==
    IF a # <<>> /\ b # <<>> /\ Head(a) = Head(b)
    THEN 1 + CommonLen(Tail(a), Tail(b))
    ELSE 0

\* os.path.dirname
dirname(path) == path.dir

relpath_MutAbsolute(path, start) == path

\* os.path.relpath(path, start).replace('\\', '/') of a file under a directory
relpath(path, start) ==
    LET start_list == AbsParts(start)
        path_list == AbsParts(path.dir)
        i == CommonLen(start_list, path_list)
    IN [dir |-> Dir(FALSE, Rep("..", Len(start_list) - i)
                           \o SubSeq(path_list, i + 1, Len(path_list))),
        name |-> path.name]

(***************************************************************************)
(* Pages.  A page is its title (NULL: no title element, or one without a   *)
(* string) and its image references in document order.  A reference is an *)
(* <img> element (tag "img") or image markup written in the text of the    *)
(* page (tag "text"), with the source as written and the place it lies in: *)
(* inside an <article>, inside a node the cleaning removes ("nav": script, *)
(* style, iframe, nav, footer, .sidebar, .advertisement, .ads), or         *)
(* elsewhere in the body.                                                  *)
(***************************************************************************)
SiteNode(tag, src, where) == [tag |-> tag, src |-> src, where |-> where]

SiteNodes ==
    { SiteNode("img", Src("abs", PngPath), w) : w \in {"article", "body", "nav"} }
    \cup { SiteNode("img", Src("rel", PngPath), "body"),
           SiteNode("img", Src("abs", GifPath), "body"),
           SiteNode("img", Src("abs", BarePath), "body"),
           SiteNode("img", Src("data", DataPath), "body"),
           SiteNode("text", Src("abs", PngPath), "body"),
           SiteNode("text", Src("rel", PngPath), "body") }

SiteNodeSeqs == UNION { [1..n -> SiteNodes] : n \in 0..MaxNodes }

Titles == { NULL, <<"a", "/", "b">> }

Sites == { [title |-> t, nodes |-> ns] : <<t, ns>> \in Titles \X SiteNodeSeqs }

ArgSets == { [save_dir |-> OutDir, img_folder |-> f] : f \in {None, VarImages} }

UntitledPage == <<"U", "n", "t", "i", "t", "l", "e", "d", " ", "P", "a", "g", "e">>
ErrorPage == <<"E", "r", "r", "o", "r", "_", "P", "a", "g", "e">>
Webpage == <<"w", "e", "b", "p", "a", "g", "e">>

\* a reference as the tree and the text hold it: the source as it stands now
\* (expr), and what the two rewriters got from download_image for it
UrlExpr(src) == [kind |-> "url", url |-> src]
LocalExpr(path) == [kind |-> "local", path |-> path]

ParsedNode(id, n) ==
    [id |-> id, tag |-> n.tag, src |-> n.src, where |-> n.where,
     expr |-> UrlExpr(n.src), tree |-> "none", text |-> "none"]

\* lines 172-173
ImgFolder ==
    IF args.img_folder = None
    THEN Dir(args.save_dir.abs, args.save_dir.parts \o <<"images">>)
    ELSE args.img_folder

\* time.strftime("%Y%m%d_%H%M%S"): the clock never runs backwards, and the
\* model lets it advance by at most a second from one read to the next; `now`
\* is the second in which the run computes its output path
ClockReads == { t \in now..MaxClock : t <= now + 1 }

\* f"{sanitized_title}_{timestamp}.md"
MdName(sanitized_title, timestamp) == [title |-> sanitized_title, ts |-> timestamp]

RunOutcomes == FetchOutcomes \cup {"interrupt"}

FetchRecord(pass, node, outcome) ==
    [n |-> Cardinality(fetches) + 1, pass |-> pass, id |-> node.id,
     url |-> urljoin(PageUrl, node.src), outcome |-> outcome]

ResetLocals ==
    /\ soup' = <<>>
    /\ main' = <<>>
    /\ md' = <<>>
    /\ cursor' = 0
    /\ title' = NULL
    /\ mdPath' = None

\* the start of the first run, the image folder holding `files`
InitWith(files) ==
    /\ sanIn = NULL
    /\ sanOut = Pending
    /\ DlIdle
    /\ imgFiles = files
    /\ now = 0
    /\ run = 1
    /\ pc = "Idle"
    /\ steps = <<>>
    /\ pageStatus = 0
    /\ soup = <<>>
    /\ main = <<>>
    /\ md = <<>>
    /\ cursor = 0
    /\ title = NULL
    /\ mdPath = None
    /\ result = NoResult
    /\ dirs = IF files = <<>> THEN {} ELSE {args.save_dir, ImgFolder}
    /\ docFiles = <<>>
    /\ fetches = {}
    /\ raisedAt = ""
    /\ filesAtStart = files
    /\ docWrites = {}
    /\ downloaded = {}
    /\ outPaths = <<>>

\* the URLs of a page that download_image would fetch
FetchableUrls(nodes) ==
    { u \in { urljoin(PageUrl, nodes[k].src) : k \in 1..Len(nodes) } :
        u.form = "abs" /\ should_download_image(u) }

\* what earlier runs may have left in the image folder for the URLs of a page:
\* for each of them no file, a complete one, or one cut short by an error or
\* an interrupt during the write (lines 101-103)
LeftoverFiles(urls, folder) ==
    { [p \in { PathJoin(folder, ImgFilename(u)) : u \in sc[1] } |->
          [url |-> p.name.hash, complete |-> p.name.hash \in sc[2]]] :
      sc \in { x \in (SUBSET urls) \X (SUBSET urls) : x[2] \subseteq x[1] } }

\* one run, in a save directory earlier runs may have used
Init ==
    /\ site \in Sites
    /\ args \in ArgSets
    /\ \E files \in LeftoverFiles(FetchableUrls(site.nodes), ImgFolder) :
          InitWith(IF DOMAIN files = {} THEN <<>> ELSE files)

\* the first run in an empty save directory
FreshInit ==
    /\ site \in Sites
    /\ args \in ArgSets
    /\ InitWith(<<>>)

\* lines 169-176
MakeDirs ==
    /\ pc = "Idle"
    /\ dirs' = dirs \cup {args.save_dir, ImgFolder}
    /\ pc' = "Fetch"
    /\ steps' = Append(steps, "MakeDirs")
    /\ UNCHANGED <<sanVars, imgFiles, dlVars, site, args, now, run, pageStatus, soup,
                   main, md, cursor, title, mdPath, result, docFiles, fetches,
                   raisedAt, filesAtStart, docWrites, downloaded, outPaths>>

PageStatuses == {200, 204, 404, 500}

PageOk_MutServerErrorsOnly(status) == status < 500

\* line 187
PageOk(status) == status = 200

NoneResult == [doc |-> None, title |-> NULL, path |-> None]

\* lines 184-189
FetchPage ==
    /\ pc = "Fetch"
    /\ \E status \in PageStatuses :
         /\ pageStatus' = status
         /\ IF PageOk(status)
            THEN /\ pc' = "Parse"
                 /\ UNCHANGED result
            ELSE /\ pc' = "Returned"
                 /\ result' = NoneResult
    /\ steps' = Append(steps, "Fetch")
    /\ UNCHANGED <<sanVars, imgFiles, dlVars, site, args, now, run, soup, main, md,
                   cursor, title, mdPath, dirs, docFiles, fetches, raisedAt,
                   filesAtStart, docWrites, downloaded, outPaths>>

\* lines 192-198
Parse ==
    /\ pc = "Parse"
    /\ soup' = [k \in 1..Len(site.nodes) |-> ParsedNode(k, site.nodes[k])]
    /\ title' = IF site.title = NULL THEN UntitledPage ELSE site.title
    /\ pc' = "Name"
    /\ steps' = Append(steps, "Parse")
    /\ UNCHANGED <<sanVars, imgFiles, dlVars, site, args, now, run, pageStatus, main,
                   md, cursor, mdPath, result, dirs, docFiles, fetches, raisedAt,
                   filesAtStart, docWrites, downloaded, outPaths>>

\* lines 201-210
NamePath ==
    /\ pc = "Name"
    /\ LET timestamp == now
       IN mdPath' = PathJoin(args.save_dir, MdName(sanitize_filename(title), timestamp))
    /\ outPaths' = Append(outPaths, mdPath')
    /\ pc' = "TreeImages"
    /\ cursor' = 1
    /\ steps' = Append(steps, "NamePath")
    /\ UNCHANGED <<sanVars, imgFiles, dlVars, site, args, now, run, pageStatus, soup, main,
                   md, title, result, dirs, docFiles, fetches, raisedAt,
                   filesAtStart, docWrites, downloaded>>

\* lines 127-131 and 148-153: what a rewriter does to a reference with the
\* result r of download_image
Rewritten_MutResolved(node, pass, r) ==
    [node EXCEPT !.expr = IF r.ret # None
                          THEN LocalExpr(relpath(r.ret, dirname(mdPath)))
                          ELSE UrlExpr(urljoin(PageUrl, node.src)),
                 ![pass] = IF r.ret # None THEN "path" ELSE "null"]

Rewritten(node, pass, r) ==
    [node EXCEPT !.expr = IF r.ret # None
                          THEN LocalExpr(relpath(r.ret, dirname(mdPath)))
                          ELSE @,
                 ![pass] = IF r.ret # None THEN "path" ELSE "null"]

\* lines 119-123: the <img> elements process_images hands to download_image
IsTreeImage(node) == node.tag = "img" /\ node.src.form # "data"

\* line 140: the references the pattern !\[(.*?)\]\((https?://[^)]+)\) matches
MatchesImgPattern(node) == node.expr.kind = "url" /\ node.expr.url.form = "abs"

\* lines 118-131: one iteration of the loop of process_images
ProcessImage ==
    /\ pc = "TreeImages"
    /\ cursor <= Len(soup)
    /\ LET node == soup[cursor]
       IN IF IsTreeImage(node)
          THEN \E outcome \in RunOutcomes :
                 LET r == download_image(node.src, PageUrl, ImgFolder, imgFiles, outcome)
                 IN /\ r.fetched \/ outcome = "ok"
                    /\ imgFiles' = r.files
                    /\ fetches' = IF r.fetched
                                  THEN fetches \cup {FetchRecord("tree", node, outcome)}
                                  ELSE fetches
                    /\ IF r.interrupted
                       THEN /\ pc' = "Interrupted"
                            /\ ResetLocals
                       ELSE /\ soup' = [soup EXCEPT ![cursor] = Rewritten(node, "tree", r)]
                            /\ cursor' = cursor + 1
                            /\ UNCHANGED <<pc, main, md, title, mdPath>>
          ELSE /\ cursor' = cursor + 1
               /\ UNCHANGED <<imgFiles, fetches, soup, pc, main, md, title, mdPath>>
    /\ UNCHANGED <<sanVars, dlVars, site, args, now, run, steps, pageStatus, result,
                   dirs, docFiles, raisedAt, filesAtStart, docWrites, downloaded,
                   outPaths>>

\* line 133
ProcessImagesReturn ==
    /\ pc = "TreeImages"
    /\ cursor > Len(soup)
    /\ pc' = "Clean"
    /\ steps' = Append(steps, "TreeImages")
    /\ UNCHANGED <<sanVars, imgFiles, dlVars, site, args, now, run, pageStatus, soup,
                   main, md, cursor, title, mdPath, result, dirs, docFiles, fetches,
                   raisedAt, filesAtStart, docWrites, downloaded, outPaths>>

IsKept(node) == node.where # "nav"

\* lines 216-217
Clean ==
    /\ pc = "Clean"
    /\ soup' = SelectSeq(soup, IsKept)
    /\ pc' = "Select"
    /\ steps' = Append(steps, "Clean")
    /\ UNCHANGED <<sanVars, imgFiles, dlVars, site, args, now, run, pageStatus, main,
                   md, cursor, title, mdPath, result, dirs, docFiles, fetches,
                   raisedAt, filesAtStart, docWrites, downloaded, outPaths>>

InArticle(node) == node.where = "article"

\* lines 221-232: the first selector that matches (here: article), else the body
MainContent(tree) ==
    IF \E k \in 1..Len(tree) : InArticle(tree[k])
    THEN SelectSeq(tree, InArticle)
    ELSE tree

Select ==
    /\ pc = "Select"
    /\ main' = MainContent(soup)
    /\ pc' = "Serialize"
    /\ steps' = Append(steps, "Select")
    /\ UNCHANGED <<sanVars, imgFiles, dlVars, site, args, now, run, pageStatus, soup,
                   md, cursor, title, mdPath, result, dirs, docFiles, fetches,
                   raisedAt, filesAtStart, docWrites, downloaded, outPaths>>

\* line 235: an <img> becomes ![alt](src), image markup in the text stays
Serialize ==
    /\ pc = "Serialize"
    /\ md' = main
    /\ pc' = "TextImages"
    /\ cursor' = 1
    /\ steps' = Append(steps, "Serialize")
    /\ UNCHANGED <<sanVars, imgFiles, dlVars, site, args, now, run, pageStatus, soup,
                   main, title, mdPath, result, dirs, docFiles, fetches, raisedAt,
                   filesAtStart, docWrites, downloaded, outPaths>>

\* lines 142-156: re.sub's call of replace_url for the next reference
ReplaceUrl ==
    /\ pc = "TextImages"
    /\ cursor <= Len(md)
    /\ LET node == md[cursor]
       IN IF MatchesImgPattern(node)
          THEN \E outcome \in RunOutcomes :
                 LET r == download_image(node.expr.url, PageUrl, ImgFolder, imgFiles, outcome)
                 IN /\ r.fetched \/ outcome = "ok"
                    /\ imgFiles' = r.files
                    /\ fetches' = IF r.fetched
                                  THEN fetches \cup {FetchRecord("text", node, outcome)}
                                  ELSE fetches
                    /\ IF r.interrupted
                       THEN /\ pc' = "Interrupted"
                            /\ ResetLocals
                       ELSE /\ md' = [md EXCEPT ![cursor] = Rewritten(node, "text", r)]
                            /\ cursor' = cursor + 1
                            /\ UNCHANGED <<pc, soup, main, title, mdPath>>
          ELSE /\ cursor' = cursor + 1
               /\ UNCHANGED <<imgFiles, fetches, md, pc, soup, main, title, mdPath>>
    /\ UNCHANGED <<sanVars, dlVars, site, args, now, run, steps, pageStatus, result,
                   dirs, docFiles, raisedAt, filesAtStart, docWrites, downloaded,
                   outPaths>>

\* line 156
ReplaceReturn ==
    /\ pc = "TextImages"
    /\ cursor > Len(md)
    /\ pc' = "Assemble"
    /\ steps' = Append(steps, "TextImages")
    /\ UNCHANGED <<sanVars, imgFiles, dlVars, site, args, now, run, pageStatus, soup,
                   main, md, cursor, title, mdPath, result, dirs, docFiles, fetches,
                   raisedAt, filesAtStart, docWrites, downloaded, outPaths>>

\* lines 241-244
Assemble ==
    /\ pc = "Assemble"
    /\ result' = [doc |-> [title |-> title, body |-> md], title |-> title, path |-> mdPath]
    /\ pc' = "Returned"
    /\ steps' = Append(steps, "Assemble")
    /\ ResetLocals
    /\ UNCHANGED <<sanVars, imgFiles, dlVars, site, args, now, run, pageStatus, dirs,
                   docFiles, fetches, raisedAt, filesAtStart, docWrites, downloaded,
                   outPaths>>

\* the positions of fetch_and_convert_to_markdown: before each of its steps
PipelineSteps == {"Idle", "Fetch", "Parse", "Name", "TreeImages", "Clean", "Select",
                  "Serialize", "TextImages", "Assemble"}

\* the positions inside the try block of lines 167-244: all of them
TrySteps == PipelineSteps

ErrorResult_MutPartial == [doc |-> None, title |-> ErrorPage, path |-> mdPath]

\* line 248
ErrorResult == [doc |-> None, title |-> ErrorPage, path |-> None]

\* a statement of the function raises an Exception: inside the try block it is
\* caught at lines 246-248; outside it would leave the function and reach the
\* caller's handler of lines 293-296, which ends the program
Raise ==
    /\ pc \in PipelineSteps
    /\ raisedAt' = pc
    /\ IF pc \in TrySteps
       THEN /\ result' = ErrorResult
            /\ pc' = "Returned"
       ELSE /\ pc' = "Crashed"
            /\ UNCHANGED result
    /\ ResetLocals
    /\ UNCHANGED <<sanVars, imgFiles, dlVars, site, args, now, run, steps, pageStatus,
                   dirs, docFiles, fetches, filesAtStart, docWrites, downloaded,
                   outPaths>>

\* open(path, 'w') and f.write; `replaced` remembers the run whose document the
\* write replaced, 0 when the path held none
WriteDocFile(path) ==
    /\ docFiles' = WriteFile(docFiles, path,
                       [run |-> run, doc |-> result.doc,
                        replaced |-> IF Exists(docFiles, path) THEN docFiles[path].run ELSE 0])
    /\ docWrites' = docWrites \cup {path}

\* lines 272-289 of the caller; `oserror` says which of the two open() calls fail
WriteDoc ==
    /\ pc = "Returned"
    /\ IF result.doc # None /\ result.path # None
       THEN \E oserror \in {"none", "first", "both"} :
              CASE oserror = "none" ->
                     /\ WriteDocFile(result.path)
                     /\ UNCHANGED now
                [] oserror = "first" ->
                     \E timestamp \in ClockReads :
                        /\ now' = timestamp
                        /\ WriteDocFile(PathJoin(args.save_dir, MdName(Webpage, timestamp)))
                [] oserror = "both" ->
                     \E timestamp \in ClockReads :
                        /\ now' = timestamp
                        /\ UNCHANGED <<docFiles, docWrites>>
       ELSE UNCHANGED <<docFiles, docWrites, now>>
    /\ pc' = "Exit"
    /\ UNCHANGED <<sanVars, imgFiles, dlVars, site, args, run, steps, pageStatus, soup,
                   main, md, cursor, title, mdPath, result, dirs, fetches, raisedAt,
                   filesAtStart, downloaded, outPaths>>

\* the program is started again, with the same arguments, in the same second
\* or in a later one
NextRun ==
    /\ pc \in {"Exit", "Interrupted", "Crashed"}
    /\ run < MaxRuns
    /\ run' = run + 1
    /\ now' \in ClockReads
    /\ pc' = "Idle"
    /\ steps' = <<>>
    /\ pageStatus' = 0
    /\ result' = NoResult
    /\ fetches' = {}
    /\ raisedAt' = ""
    /\ filesAtStart' = imgFiles
    /\ docWrites' = {}
    /\ downloaded' = downloaded \cup { f.url : f \in { g \in fetches : g.outcome = "ok" } }
    /\ UNCHANGED <<sanVars, imgFiles, dlVars, site, args, soup, main, md, cursor,
                   title, mdPath, dirs, docFiles, outPaths>>

Next ==
    \/ MakeDirs
    \/ FetchPage
    \/ Parse
    \/ NamePath
    \/ ProcessImage
    \/ ProcessImagesReturn
    \/ Clean
    \/ Select
    \/ Serialize
    \/ ReplaceUrl
    \/ ReplaceReturn
    \/ Assemble
    \/ Raise
    \/ WriteDoc

\* one run of the program
Spec == Init /\ [][Next]_vars

RerunNext == Next \/ NextRun

\* up to MaxRuns runs, one after the other, starting in an empty directory
RerunSpec == FreshInit /\ [][RerunNext]_vars

(***************************************************************************)
(* Properties.                                                             *)
(***************************************************************************)

\* the calls k and k+1 of the localizer harness
Consecutive == { k \in 1..Len(dlCalls) : k + 1 <= Len(dlCalls) }

FetchCount(k) == IF dlCalls[k].fetched THEN 1 ELSE 0

\* C1, as claimed: of the first two calls of download_image with one URL and
\* one folder exactly one issues a network fetch, and both return the same
\* local path, whatever the network answered the first
C1_IdempotentWhateverOutcome ==
    Len(dlCalls) >= 2 =>
        /\ FetchCount(1) + FetchCount(2) = 1
        /\ dlCalls[2].ret = dlCalls[1].ret

\* C1, amended: a call that follows a call which returned a path issues no
\* fetch and returns the same path (so a first fetch answered 200 and written
\* to the end is the only fetch of the two calls); a call that follows a
\* fetch which failed before the file was opened (a status other than 200, a
\* transport error) finds no file and fetches again; a URL with an ignored
\* extension is never fetched and yields None both times
C1_IdempotentAfterSuccess ==
    \A k \in Consecutive :
        /\ dlCalls[k].ret # None =>
              /\ ~ dlCalls[k + 1].fetched
              /\ dlCalls[k + 1].ret = dlCalls[k].ret
        /\ dlCalls[k].outcome = "ok" => FetchCount(k) + FetchCount(k + 1) = 1
        /\ dlCalls[k].outcome \in {"status", "error_before"} =>
              /\ dlCalls[k].ret = None
              /\ dlCalls[k + 1].fetched
        /\ dlSrc.path = GifPath =>
              /\ ~ dlCalls[k].fetched /\ dlCalls[k].ret = None
              /\ ~ dlCalls[k + 1].fetched /\ dlCalls[k + 1].ret = None

\* C1, witness: a first call whose fetch succeeds, then a cache hit
C1_Witness ==
    /\ Len(dlCalls) >= 2
    /\ dlCalls[1].outcome = "ok"
    /\ ~ dlCalls[2].fetched
    /\ dlCalls[2].ret = dlCalls[1].ret
    /\ dlCalls[1].ret = PathJoin(dlFolder, ImgFilename(urljoin(PageUrl, dlSrc)))

\* the references of the document a run returned
DocBody == IF result # NoResult /\ result.doc # None THEN result.doc.body ELSE <<>>

Localized(item) == item.tree = "path" \/ item.text = "path"

\* a list of path components with every "dir/.." pair removed
RECURSIVE NormParts(_, _)
NormParts(done, rest) ==
    IF rest = <<>> THEN done
    ELSE IF Head(rest) = ".." /\ done # <<>>
         THEN NormParts(SubSeq(done, 1, Len(done) - 1), Tail(rest))
         ELSE NormParts(Append(done, Head(rest)), Tail(rest))

\* C2: in the document a run returns, every reference for which download_image
\* returned a path (in the tree rewriter or in the text rewriter) is a path
\* that is relative, that leads from the directory of the output file to the
\* file in the image folder, and that is neither the remote URL nor absolute
C2_LocalizedAreRelative ==
    \A k \in 1..Len(DocBody) :
        LET item == DocBody[k]
        IN Localized(item) =>
             /\ item.expr.kind = "local"
             /\ ~ item.expr.path.dir.abs
             /\ NormParts(<<>>, AbsParts(dirname(result.path)) \o item.expr.path.dir.parts)
                  = AbsParts(ImgFolder)
             /\ item.expr.path.name = ImgFilename(urljoin(PageUrl, item.src))
             /\ Exists(imgFiles, PathJoin(ImgFolder, item.expr.path.name))

\* C2, witness: a returned document with a reference the tree rewriter
\* localized and a reference the text rewriter localized, the image folder
\* lying outside the save directory
C2_Witness ==
    /\ args.img_folder = VarImages
    /\ \E k \in 1..Len(DocBody) : DocBody[k].tree = "path"
    /\ \E k \in 1..Len(DocBody) : DocBody[k].text = "path" /\ DocBody[k].tag = "text"

\* C3, as claimed: two runs with the same save directory and the same title
\* compute distinct output paths, so that no run writes its document over the
\* document of an earlier run; and a run fetches no image an earlier run
\* downloaded
C3_UniqueOutputPaths ==
    /\ \A p \in DOMAIN docFiles :
          docFiles[p].replaced = 0 \/ p.name.title = Webpage
    /\ \A f \in fetches : f.url \notin downloaded

\* the second half of C3 alone: no run fetches an image an earlier run downloaded
NoRefetchAcrossRuns == \A f \in fetches : f.url \notin downloaded

\* C4: once the page fetch has returned a status outside 2xx the run has
\* returned (None, None, None) with no step after the fetch, no image fetch,
\* no image file written and no document written
C4_PageStatusFailure ==
    (pageStatus # 0 /\ pageStatus \notin 200..299) =>
        /\ pc \in {"Returned", "Exit"}
        /\ result = NoneResult
        /\ steps = <<"MakeDirs", "Fetch">>
        /\ fetches = {}
        /\ imgFiles = filesAtStart
        /\ docWrites = {}

\* C4, witness: a run whose page fetch returned 404 has ended
C4_Witness == pageStatus = 404 /\ pc = "Exit"

\* C5: no exception leaves fetch_and_convert_to_markdown: a run in which a step
\* raised has returned exactly (None, "Error_Page", None); in every result the document is None exactly
\* when the path is, a failed run (a raise, a page status other than 200)
\* returns no document, and a returned document comes with a title
C5_UniformFailure ==
    /\ pc # "Crashed"
    /\ raisedAt # "" =>
          /\ pc \in {"Returned", "Exit"}
          /\ result = [doc |-> None, title |-> ErrorPage, path |-> None]
    /\ result # NoResult =>
          /\ result.doc = None <=> result.path = None
          /\ (raisedAt # "" \/ pageStatus # 200) => result.doc = None
          /\ result.doc # None => result.title # NULL

\* C5, witness: a run that raised in the text rewriter, after an image fetch
C5_Witness ==
    /\ raisedAt = "TextImages"
    /\ pc = "Returned"
    /\ fetches # {}

FailedOutcomes == {"status", "error_before", "error_mid"}

\* the references of the returned document for which some call of
\* download_image returned None
SoftFailed(item) == item.tree = "null" \/ item.text = "null"

\* a resolved URL whose path ends, in whatever case, in one of the extensions
\* .ico .webp .svg .gif .bmp .tiff
EndsInIgnoredExtension(url) ==
    \E k \in 1..Len(IGNORED_EXTENSIONS) :
        LET ext == IGNORED_EXTENSIONS[k]
            path == url.path
        IN /\ Len(path) >= Len(ext)
           /\ \A i \in 1..Len(ext) :
                 Lower(<<path[Len(path) - Len(ext) + i]>>) = <<ext[i]>>

\* C6, as claimed: no URL with an ignored extension is ever fetched, and in the
\* document a run returns every reference whose localization yielded None
\* stands as its original URL, unchanged
C6_SoftFailureKeepsUrl ==
    /\ \A f \in fetches : ~ EndsInIgnoredExtension(f.url)
    /\ \A k \in 1..Len(DocBody) :
          SoftFailed(DocBody[k]) => DocBody[k].expr = UrlExpr(DocBody[k].src)

C6_NoFetchOfIgnored == \A f \in fetches : ~ EndsInIgnoredExtension(f.url)

C6_UnlocalizedUnchanged ==
    \A k \in 1..Len(DocBody) :
        ~ Localized(DocBody[k]) => DocBody[k].expr = UrlExpr(DocBody[k].src)

C6_FailedFetchGoesOn ==
    \A f \in fetches' \ fetches : f.outcome \in FailedOutcomes => pc' = pc

\* C6, amended: (a) no URL with an ignored extension is ever fetched; (b) a
\* fetch that fails (status, transport error) leaves the run in the loop it is
\* in; and in the document a run returns every reference for which no call of
\* download_image returned a path stands as its source as written.  (A
\* reference written as an absolute URL that the tree rewriter failed to
\* localize is handed to download_image again by the text rewriter, and is a
\* local path in the document when that call returns one.)
C6_SoftFailure ==
    /\ [](C6_NoFetchOfIgnored /\ C6_UnlocalizedUnchanged)
    /\ [][C6_FailedFetchGoesOn]_vars

\* C6, witness: a returned document with a reference whose fetch failed in
\* both rewriters and a reference with an ignored extension, both as written
C6_Witness ==
    /\ \E k \in 1..Len(DocBody) :
          /\ DocBody[k].tree = "null" /\ DocBody[k].text = "null"
          /\ \E f \in fetches : f.id = DocBody[k].id /\ f.outcome \in FailedOutcomes
          /\ DocBody[k].expr = UrlExpr(DocBody[k].src)
    /\ \E k \in 1..Len(DocBody) :
          /\ EndsInIgnoredExtension(urljoin(PageUrl, DocBody[k].src))
          /\ DocBody[k].tree = "null"
          /\ DocBody[k].expr = UrlExpr(DocBody[k].src)

\* the steps of the specification's state machine, in its order
SpecOrder == <<"Fetch", "Parse", "Clean", "TreeImages", "Select", "Serialize",
               "TextImages", "Assemble">>

IsSpecStep(step) == \E k \in 1..Len(SpecOrder) : SpecOrder[k] = step

\* C8, as claimed: the cleaning is done before the tree rewriter starts, so
\* that no fetch is issued and no cache file is written for an <img> inside a
\* node the cleaning removes; and a run that returns a document has done the
\* steps in the order of the specification, each once
C8_CleanBeforeTreeImages ==
    /\ \A f \in fetches : f.pass = "tree" => site.nodes[f.id].where # "nav"
    /\ (result # NoResult /\ result.doc # None) => SelectSeq(steps, IsSpecStep) = SpecOrder

\* C9, as claimed: a run issues at most one fetch for a resolved URL
C9_OneFetchPerUrl ==
    \A f, g \in fetches : f.url = g.url => f = g

\* C9, amended: a run issues no fetch for a URL whose cache file exists: of
\* two fetches of one URL in a run, the earlier left no file (its status was
\* not 200, or the transport failed before the file was opened), and no
\* fetch is for a file that was there when the run started.  An image whose
\* fetch left a file is fetched once; one whose fetch failed without a file
\* is fetched again by the next reference to it, the text rewriter's included
C9_NoFetchOnceCached ==
    /\ \A f, g \in fetches :
          (f.url = g.url /\ f.n < g.n) => f.outcome \in {"status", "error_before"}
    /\ \A f \in fetches :
          ~ Exists(filesAtStart, PathJoin(ImgFolder, ImgFilename(f.url)))

\* C9, witness: an image the tree rewriter fetched with success, not fetched
\* again by the text rewriter that came to the same URL
C9_Witness ==
    /\ pc = "Returned"
    /\ \E k, l \in 1..Len(DocBody) :
          /\ k # l
          /\ DocBody[k].tree = "path"
          /\ DocBody[l].text = "path"
          /\ urljoin(PageUrl, DocBody[k].src) = urljoin(PageUrl, DocBody[l].src)
          /\ Cardinality({ f \in fetches : f.url = urljoin(PageUrl, DocBody[k].src) }) = 1

\* C10, as claimed: every file in an image folder holds the complete body of
\* a fetch of the URL it is named after
C10_CacheFilesComplete ==
    \A p \in DOMAIN imgFiles :
        /\ imgFiles[p].complete
        /\ p.name = ImgFilename(imgFiles[p].url)

\* the steps of the specification's sanitizer in the order it states them:
\* collapse and trim, then truncate, then the default
SpecOrderSanitize(text) ==
    IF text = NULL \/ text = <<>> THEN Untitled
    ELSE LET trimmed == Strip(CollapseWhitespace(ReplaceInvalid(ReplaceNewlines(text))))
             limited == IF Len(trimmed) > MaxFilenameLen
                        THEN SubSeq(trimmed, 1, TruncateKeep) \o Ellipsis
                        ELSE trimmed
         IN IF limited = <<>> THEN Untitled ELSE limited

IsSafeName(name) ==
    /\ Len(name) >= 1
    /\ Len(name) <= MaxFilenameLen
    /\ \A i \in 1..Len(name) : name[i] \notin InvalidChars

\* C7, as claimed: the result of sanitize_filename is that of the
\* specification's steps in their stated order, and it is not empty, at most
\* 100 characters long and free of \ / * ? : " < > |
C7_EqualsSpecOrder ==
    sanOut # Pending => (sanOut = SpecOrderSanitize(sanIn) /\ IsSafeName(sanOut))

\* C7, amended: sanitize_filename truncates before it trims (a text whose
\* collapsed form is longer than 100 characters is cut to 97 characters and
\* "..." even when trimming alone would have brought it to 100 or fewer); the
\* result is not empty, at most 100 characters long, free of
\* \ / * ? : " < > | and of whitespace at either end, it is "untitled" for None
\* and for a text of whitespace only, and it differs from the result of the
\* stated order only for texts whose collapsed form is longer than 100
C7_SafeName ==
    sanOut # Pending =>
        /\ IsSafeName(sanOut)
        /\ sanOut[1] \notin Whitespace /\ sanOut[Len(sanOut)] \notin Whitespace
        /\ (sanIn = NULL \/ \A i \in 1..Len(sanIn) : sanIn[i] \in Whitespace)
              => sanOut = Untitled
        /\ sanOut # SpecOrderSanitize(sanIn) =>
              Len(CollapseWhitespace(sanIn)) > MaxFilenameLen

\* C7, witness: a text longer than 100 characters, cut to 100 with the ellipsis
C7_Witness ==
    /\ sanOut # Pending
    /\ sanIn # NULL
    /\ Len(sanIn) > MaxFilenameLen
    /\ Len(sanOut) = MaxFilenameLen
    /\ SubSeq(sanOut, Len(sanOut) - 2, Len(sanOut)) = Ellipsis

====
